---- MODULE Spec2Model ----
(***************************************************************************)
(* The 3-stage LLM council of backend/council.py.                          *)
(*                                                                         *)
(* Text is modelled as a sequence of lexical tokens: the marker            *)
(* "FINAL RANKING:", a digit, a period, a whitespace character, the        *)
(* labels "Response A", "Response B", ... and other words.  The empty      *)
(* string is the empty sequence and string concatenation is \o.  The       *)
(* regular expressions and str.split of parse_ranking_from_text are        *)
(* computed on these tokens the way re/str compute them on characters.     *)
(***************************************************************************)
EXTENDS Integers, Sequences, FiniteSets, TLC

VARIABLES
    council,              \* COUNCIL_MODELS as configured for the run
    user_query,           \* run_full_council's user_query
    conversation_history, \* run_full_council's conversation_history
    pc,                   \* position of the run_full_council coroutine
    issued,               \* calls handed to the model client, in issue order
    in_flight,            \* calls issued and not yet resolved: <<stage, index>>
    arrived1,             \* Stage 1 calls (indices of council) in completion order
    results1,             \* Stage 1: outcome of each call, by index in council
    stage1_results,
    label_to_model,
    results2,             \* Stage 2: outcome of each call, by index in council
    stage2_results,
    aggregate_rankings,
    chairman_response,    \* outcome of the chairman call
    result,               \* the tuple run_full_council returns
    h_pc,                 \* position of the parser/aggregator run on one text
    ranking_text,         \* parse_ranking_from_text's argument
    ranking_section,      \* parse_ranking_from_text's ranking_section
    parsed_ranking,       \* parse_ranking_from_text's return value
    h_aggregate,          \* calculate_aggregate_rankings over that text
    t_pc,                 \* position of the generate_conversation_title coroutine
    title_call,           \* the call it handed to the model client
    title_response,       \* outcome of that call (what the model will answer)
    title_return          \* what it returned, or that it raised

runVars == <<council, user_query, conversation_history, pc, issued, in_flight,
             arrived1, results1, stage1_results, label_to_model, results2,
             stage2_results, aggregate_rankings, chairman_response, result>>
parseVars == <<h_pc, ranking_text, ranking_section, parsed_ranking, h_aggregate>>
titleVars == <<t_pc, title_call, title_response, title_return>>
vars == <<runVars, parseVars, titleVars>>

(***************************************************************************)
(* Bounds                                                                  *)
(***************************************************************************)
\* Longest text (in tokens) given to parse_ranking_from_text on its own.
MaxLen == 5

\* Most labels in one reviewer's ranking, when rankings are aggregated on their own.
MaxRank == 2
\* Most reviewers, when rankings are aggregated on their own.
MaxReviewers == 2

\* Longest run of characters between the padding of a title answer.
MaxBody == 53
\* Most whitespace and quote characters before, and after, a title answer.
MaxPad == 2

(***************************************************************************)
(* Configuration (backend/config.py)                                       *)
(***************************************************************************)
COUNCIL_MODELS ==
    << "allenai/olmo-3.1-32b-think:free",
       "nvidia/nemotron-3-nano-30b-a3b:free",
       "qwen/qwen3-coder:free" >>

CHAIRMAN_MODEL == "xiaomi/mimo-v2-flash:free"

(***************************************************************************)
(* Generic helpers                                                         *)
(***************************************************************************)
Range(s) == {s[i] : i \in 1..Len(s)}

EmptyDict == [k \in {} |-> 0]

RECURSIVE Concat(_)
\* "".join(seq of texts)
Concat(ss) == IF ss = <<>> THEN <<>> ELSE Head(ss) \o Concat(Tail(ss))

RECURSIVE Join(_, _)
\* sep.join(seq of texts)
Join(sep, ss) ==
    IF ss = <<>> THEN <<>>
    ELSE IF Len(ss) = 1 THEN Head(ss)
    ELSE Head(ss) \o sep \o Join(sep, Tail(ss))

\* chr(n) for the capital letters
Chr(n) ==
    << "A", "B", "C", "D", "E", "F", "G", "H", "I", "J", "K", "L", "M",
       "N", "O", "P", "Q", "R", "S", "T", "U", "V", "W", "X", "Y", "Z" >>[n - 64]

(***************************************************************************)
(* Tokens of a text                                                        *)
(***************************************************************************)
MARKER == "FINAL RANKING:"
Digits == {"1", "2", "3"}
Period == "."
Whitespace == {" "}
\* every token the regular expression Response [A-Z] matches
ResponseLabels == {"Response " \o Chr(n) : n \in 65..90}

\* The alphabet the standalone parser runs draw their texts from.
Tokens == {MARKER, "1", Period, " ", "Response A", "Response B", "x"}

RECURSIVE SeqsUpTo(_, _)
SeqsUpTo(S, n) ==
    IF n = 0 THEN {<<>>}
    ELSE LET shorter == SeqsUpTo(S, n - 1)
         IN shorter \cup {Append(s, t) : s \in {u \in shorter : Len(u) = n - 1}, t \in S}

(***************************************************************************)
(* parse_ranking_from_text                                                 *)
(***************************************************************************)
\* Index of the first occurrence of tok in text, 0 when there is none.
IndexOf(text, tok) ==
    IF \E i \in 1..Len(text) : text[i] = tok
    THEN CHOOSE i \in 1..Len(text) :
            text[i] = tok /\ \A j \in 1..(i - 1) : text[j] # tok
    ELSE 0

RECURSIVE Split(_, _)
\* text.split(sep): the pieces between the occurrences of sep
Split(text, sep) ==
    LET i == IndexOf(text, sep)
    IN IF i = 0 THEN <<text>>
       ELSE <<SubSeq(text, 1, i - 1)>> \o Split(SubSeq(text, i + 1, Len(text)), sep)

\* re.findall(r"Response [A-Z]", text)
FindallLabels(text) == SelectSeq(text, LAMBDA t : t \in ResponseLabels)

RECURSIVE CountLeading(_, _)
\* length of the longest prefix of s made of tokens of S (a greedy X+ or X*)
CountLeading(s, S) ==
    IF s # <<>> /\ Head(s) \in S THEN 1 + CountLeading(Tail(s), S) ELSE 0

\* Length of the match of \d+\.\s*Response [A-Z] at the start of s, 0 if none.
NumberedMatchLen(s) ==
    LET d == CountLeading(s, Digits)
        afterDigits == SubSeq(s, d + 1, Len(s))
        w == CountLeading(Tail(afterDigits), Whitespace)
    IN IF d = 0 THEN 0
       ELSE IF afterDigits = <<>> \/ Head(afterDigits) # Period THEN 0
       ELSE IF d + 1 + w + 1 <= Len(s) /\ s[d + 1 + w + 1] \in ResponseLabels
            THEN d + 1 + w + 1
            ELSE 0

RECURSIVE FindallNumbered(_)
\* re.findall(r"\d+\.\s*Response [A-Z]", s): the non-overlapping matches,
\* scanning left to right
FindallNumbered(s) ==
    IF s = <<>> THEN <<>>
    ELSE LET n == NumberedMatchLen(s)
         IN IF n > 0
            THEN <<SubSeq(s, 1, n)>> \o FindallNumbered(SubSeq(s, n + 1, Len(s)))
            ELSE FindallNumbered(Tail(s))

\* re.search(r"Response [A-Z]", m): the first match, <<>> for no match
SearchLabel(m) ==
    LET found == FindallLabels(m)
    IN IF found = <<>> THEN <<>> ELSE <<Head(found)>>

\* the loop over numbered_matches appending match.group()
ExtractLabels(numbered_matches) ==
    Concat([k \in 1..Len(numbered_matches) |-> SearchLabel(numbered_matches[k])])

\* parts[1] of ranking_text.split("FINAL RANKING:")
RankingSectionOf(text) == Split(text, MARKER)[2]

\* parse_ranking_from_text with the whole-text fallback looking for numbered
\* entries only
ParseRunNumberedFallback(text) ==
    IF MARKER \in Range(text) /\ Len(Split(text, MARKER)) >= 2
    THEN LET section == RankingSectionOf(text)
             numbered_matches == FindallNumbered(section)
         IN [section |-> section,
             result  |-> IF numbered_matches # <<>>
                         THEN ExtractLabels(numbered_matches)
                         ELSE FindallLabels(section)]
    ELSE [section |-> <<>>, result |-> ExtractLabels(FindallNumbered(text))]

\* The whole of parse_ranking_from_text: its ranking_section (<<>> when the
\* branch that sets it is not taken) and its return value.
ParseRun(text) ==
    IF MARKER \in Range(text) /\ Len(Split(text, MARKER)) >= 2
    THEN LET section == RankingSectionOf(text)
             numbered_matches == FindallNumbered(section)
         IN [section |-> section,
             result  |-> IF numbered_matches # <<>>
                         THEN ExtractLabels(numbered_matches)
                         ELSE FindallLabels(section)]
    ELSE [section |-> <<>>, result |-> FindallLabels(text)]

parse_ranking_from_text(text) == ParseRun(text).result

(***************************************************************************)
(* calculate_aggregate_rankings                                            *)
(*                                                                         *)
(* model_positions, a dict in insertion order, is a sequence of            *)
(* [model, positions] in order of discovery.  average_rank is kept in      *)
(* hundredths: 150 is the float 1.5.                                       *)
(***************************************************************************)
\* model_positions[model].append(position)
RecordPosition(model_positions, model, position) ==
    IF \E k \in 1..Len(model_positions) : model_positions[k].model = model
    THEN [k \in 1..Len(model_positions) |->
            IF model_positions[k].model = model
            THEN [model_positions[k] EXCEPT !.positions = Append(@, position)]
            ELSE model_positions[k]]
    ELSE Append(model_positions, [model |-> model, positions |-> <<position>>])

RECURSIVE WalkRankingDefaultOrder(_, _, _, _)
\* the walk with an empty ranking replaced by the labels in their own order
WalkRankingDefaultOrder(model_positions, parsed, position, l2m) ==
    IF parsed = <<>> /\ Cardinality(DOMAIN l2m) > 0
    THEN WalkRankingDefaultOrder(
            model_positions,
            [k \in 1..Cardinality(DOMAIN l2m) |-> "Response " \o Chr(64 + k)],
            position, l2m)
    ELSE IF position > Len(parsed) THEN model_positions
    ELSE WalkRankingDefaultOrder(
            IF parsed[position] \in DOMAIN l2m
            THEN RecordPosition(model_positions, l2m[parsed[position]], position)
            ELSE model_positions,
            parsed, position + 1, l2m)

RECURSIVE WalkRankingZeroBased(_, _, _, _)
\* the walk with enumerate counting from 0
WalkRankingZeroBased(model_positions, parsed, position, l2m) ==
    IF position > Len(parsed) THEN model_positions
    ELSE WalkRankingZeroBased(
            IF parsed[position] \in DOMAIN l2m
            THEN RecordPosition(model_positions, l2m[parsed[position]], position - 1)
            ELSE model_positions,
            parsed, position + 1, l2m)

RECURSIVE WalkRankingKnownOnly(_, _, _, _, _)
WalkRankingKnownOnly(model_positions, parsed, index, position, l2m) ==
    IF index > Len(parsed) THEN model_positions
    ELSE IF parsed[index] \in DOMAIN l2m
    THEN WalkRankingKnownOnly(
            RecordPosition(model_positions, l2m[parsed[index]], position),
            parsed, index + 1, position + 1, l2m)
    ELSE WalkRankingKnownOnly(model_positions, parsed, index + 1, position, l2m)

\* the walk over the labels of label_to_model only: a label that is no key
\* takes no position
WalkRankingSkipsUnknown(model_positions, parsed, position, l2m) ==
    WalkRankingKnownOnly(model_positions, parsed, position, position, l2m)

RECURSIVE WalkRanking(_, _, _, _)
\* for position, label in enumerate(parsed_ranking, start=1): labels that
\* are keys of label_to_model record their position
WalkRanking(model_positions, parsed, position, l2m) ==
    IF position > Len(parsed) THEN model_positions
    ELSE WalkRanking(
            IF parsed[position] \in DOMAIN l2m
            THEN RecordPosition(model_positions, l2m[parsed[position]], position)
            ELSE model_positions,
            parsed, position + 1, l2m)

RECURSIVE WalkReviewers(_, _, _)
\* for ranking in stage2_results: the ranking text is parsed again
WalkReviewers(model_positions, s2, l2m) ==
    IF s2 = <<>> THEN model_positions
    ELSE WalkReviewers(
            WalkRanking(model_positions,
                        parse_ranking_from_text(Head(s2).ranking), 1, l2m),
            Tail(s2), l2m)

RECURSIVE Sum(_)
Sum(positions) == IF positions = <<>> THEN 0 ELSE Head(positions) + Sum(Tail(positions))

\* round(total / n, 2) in hundredths; a value exactly halfway between two
\* hundredths goes to the even one, as round() does for the floats that
\* represent such a value exactly.
Round2(total, n) ==
    LET q == (100 * total) \div n
        r == (100 * total) % n
    IN IF 2 * r < n THEN q
       ELSE IF 2 * r > n THEN q + 1
       ELSE IF q % 2 = 0 THEN q ELSE q + 1

\* the loop building aggregate; a key of model_positions always has positions
AggregateEntries(model_positions) ==
    [k \in 1..Len(model_positions) |->
        [model          |-> model_positions[k].model,
         average_rank   |-> Round2(Sum(model_positions[k].positions),
                                   Len(model_positions[k].positions)),
         rankings_count |-> Len(model_positions[k].positions)]]

RECURSIVE InsertSorted(_, _)
\* e goes after every entry whose average_rank is not greater (stable)
InsertSorted(sorted, e) ==
    IF sorted = <<>> THEN <<e>>
    ELSE IF Head(sorted).average_rank <= e.average_rank
         THEN <<Head(sorted)>> \o InsertSorted(Tail(sorted), e)
         ELSE <<e>> \o sorted

\* the aggregate left in the order of discovery
SortForgotten(aggregate) == aggregate

RECURSIVE SortByAverageRank(_)
\* aggregate.sort(key=lambda x: x["average_rank"]): a stable sort
SortByAverageRank(aggregate) ==
    IF aggregate = <<>> THEN <<>>
    ELSE InsertSorted(SortByAverageRank(SubSeq(aggregate, 1, Len(aggregate) - 1)),
                      aggregate[Len(aggregate)])

calculate_aggregate_rankings(s2, l2m) ==
    SortByAverageRank(AggregateEntries(WalkReviewers(<<>>, s2, l2m)))

(***************************************************************************)
(* The model client (backend/openrouter.py): a call resolves to None on    *)
(* failure, or to a dict that may or may not hold "content".               *)
(***************************************************************************)
None == [is_none |-> TRUE, has_content |-> FALSE, content |-> <<>>]
DictNoContent == [is_none |-> FALSE, has_content |-> FALSE, content |-> <<>>]
Dict(c) == [is_none |-> FALSE, has_content |-> TRUE, content |-> c]

\* response.get("content", default)
Get(response, default) ==
    IF response.has_content THEN response.content ELSE default

\* What the council may answer in Stage 1.
Stage1Outcomes == {None, DictNoContent, Dict(<<"r1">>)}

\* What a reviewer may answer in Stage 2.
RankingAB ==
    <<"x", MARKER, "1", Period, " ", "Response A", "2", Period, " ", "Response B">>
RankingBA ==
    <<"x", MARKER, "1", Period, " ", "Response B", "2", Period, " ", "Response A">>
NoRankingInfo == <<"no ranking info">>
Stage2Outcomes == {None, Dict(RankingAB), Dict(RankingBA), Dict(NoRankingInfo)}

\* What the chairman may answer.
ChairmanOutcomes == {None, DictNoContent, Dict(<<"final">>)}

\* The configurations of the council: the configured list and its prefixes,
\* the empty list among them.  The identifiers of a council are distinct.
Councils == {SubSeq(COUNCIL_MODELS, 1, n) : n \in 0..Len(COUNCIL_MODELS)}

Queries == {<<"q">>}
Histories ==
    { <<>>,
      << [role |-> "user", content |-> <<"h1">>],
         [role |-> "assistant", content |-> <<"h2">>] >> }

Message(role, content) == [role |-> role, content |-> content]
Call(stage, model, messages) ==
    [stage |-> stage, model |-> model, messages |-> messages]

(***************************************************************************)
(* stage1_collect_responses                                                *)
(***************************************************************************)
SPECIAL_ROLES ==
    [m \in {"qwen/qwen3-coder:free"} |->
        Message("system",
                <<"You are a specialized Calculation and Analysis Agent.">>)]

\* the message list built for one council model
Stage1Messages(model, q, history) ==
    (IF model \in DOMAIN SPECIAL_ROLES THEN <<SPECIAL_ROLES[model]>> ELSE <<>>)
        \o history \o <<Message("user", q)>>

\* tasks: one query_model call per council model
Stage1Calls(models, q, history) ==
    [k \in 1..Len(models) |-> Call(1, models[k], Stage1Messages(models[k], q, history))]

\* the calls of a stage still awaited
Awaited(flying, stage) == {c \in flying : c[1] = stage}

\* a wait that returns as soon as one call has resolved
GatherFirstDone(flying) ==
    \E k \in 1..Len(council) : <<1, k>> \notin flying

\* await asyncio.gather(...) returns once every call has resolved
GatherDone(flying) == Awaited(flying, 1) = {}

\* the outcomes in completion order, as asyncio.as_completed yields them
GatherResultsAsCompleted(outcomes, arrived) ==
    [k \in 1..Len(outcomes) |-> outcomes[arrived[k]]]

\* asyncio.gather's result list: position k holds the outcome of the k-th
\* awaitable, whatever the completion order
GatherResults(outcomes, arrived) ==
    [k \in 1..Len(outcomes) |-> outcomes[k]]

\* responses = {task[0]: result ...} and the loop over responses.items();
\* the models of a council are distinct, so the dict keeps one key per task
\* in task order
Stage1Format(models, gathered) ==
    LET kept == SelectSeq([k \in 1..Len(models) |-> k],
                          LAMBDA k : ~gathered[k].is_none)
    IN [j \in 1..Len(kept) |->
          [model |-> models[kept[j]], response |-> Get(gathered[kept[j]], <<>>)]]

(***************************************************************************)
(* stage2_collect_rankings                                                 *)
(***************************************************************************)
\* the labels counted from 1: chr(65 + i) for i in 1..n
LabelsFromOne(n) == [k \in 1..n |-> Chr(65 + k)]

\* labels = [chr(65 + i) for i in range(len(stage1_results))]
Labels(n) == [k \in 1..n |-> Chr(65 + (k - 1))]

\* label_to_model = {f"Response {label}": result["model"] ...}
LabelToModel(s1) ==
    LET labels == Labels(Len(s1))
    IN [l \in {"Response " \o labels[k] : k \in 1..Len(s1)} |->
          s1[CHOOSE k \in 1..Len(s1) :
                /\ "Response " \o labels[k] = l
                /\ \A j \in (k + 1)..Len(s1) : "Response " \o labels[j] # l].model]

\* str.title() of the roles
Title(role) ==
    CASE role = "user" -> "User"
      [] role = "assistant" -> "Assistant"
      [] role = "system" -> "System"
      [] OTHER -> role

\* context_text, in both prompts
ContextText(history) ==
    IF history = <<>> THEN <<>>
    ELSE <<"\n\nPrevious conversation:\n">>
         \o Join(<<"\n">>,
                 [k \in 1..Len(history) |->
                    <<Title(history[k].role), ": ">> \o history[k].content])

\* the responses headed as the chairman prompt heads them, model included
ResponsesTextWithModel(s1) ==
    LET labels == Labels(Len(s1))
    IN Join(<<"\n\n">>,
            [k \in 1..Len(s1) |->
                <<"Response " \o labels[k] \o ":\n", "Model: ", s1[k].model, "\n">>
                \o s1[k].response])

\* responses_text of the ranking prompt
ResponsesText(s1) ==
    LET labels == Labels(Len(s1))
    IN Join(<<"\n\n">>,
            [k \in 1..Len(s1) |->
                <<"Response " \o labels[k] \o ":\n">> \o s1[k].response])

\* ranking_prompt
RankingPrompt(q, s1, history) ==
    <<"You are evaluating different responses to the following question:\n">>
    \o ContextText(history)
    \o <<"\n\nCurrent Question: ">> \o q
    \o <<"\n\nHere are the responses from different models (anonymized):\n\n">>
    \o ResponsesText(s1)
    \o <<"\n\nYour task: ... Now provide your evaluation and ranking:">>

\* query_models_parallel(COUNCIL_MODELS, messages): the same messages go to
\* every model of the list
Stage2Calls(models, messages) ==
    [k \in 1..Len(models) |-> Call(2, models[k], messages)]

\* query_models_parallel returns once every call has resolved
ParallelDone(flying) == Awaited(flying, 2) = {}

\* the Stage2Result keeping only the marker and what follows it
Stage2EntrySectionOnly(model, full_text) ==
    [model |-> model,
     ranking |-> IF MARKER \in Range(full_text)
                 THEN SubSeq(full_text, IndexOf(full_text, MARKER), Len(full_text))
                 ELSE full_text,
     parsed_ranking |-> parse_ranking_from_text(full_text)]

\* the Stage2Result built from a reviewer's response text
Stage2Entry(model, full_text) ==
    [model |-> model,
     ranking |-> full_text,
     parsed_ranking |-> parse_ranking_from_text(full_text)]

\* the loop keeping an entry with an empty ranking for a failed reviewer
Stage2FormatKeepsFailed(models, outcomes) ==
    [k \in 1..Len(models) |-> Stage2Entry(models[k], Get(outcomes[k], <<>>))]

\* the loop over responses.items(), one item per model in list order
Stage2Format(models, outcomes) ==
    LET kept == SelectSeq([k \in 1..Len(models) |-> k],
                          LAMBDA k : ~outcomes[k].is_none)
    IN [j \in 1..Len(kept) |->
          Stage2Entry(models[kept[j]], Get(outcomes[kept[j]], <<>>))]

(***************************************************************************)
(* stage3_synthesize_final                                                 *)
(***************************************************************************)
ChairmanPrompt(q, s1, s2, history) ==
    <<"You are the Chairman of an LLM Council. ...\n">>
    \o ContextText(history)
    \o <<"\n\nCurrent Question: ">> \o q
    \o <<"\n\nSTAGE 1 - Individual Responses:\n">>
    \o Join(<<"\n\n">>,
            [k \in 1..Len(s1) |->
                <<"Model: ", s1[k].model, "\nResponse: ">> \o s1[k].response])
    \o <<"\n\nSTAGE 2 - Peer Rankings:\n">>
    \o Join(<<"\n\n">>,
            [k \in 1..Len(s2) |->
                <<"Model: ", s2[k].model, "\nRanking: ">> \o s2[k].ranking])
    \o <<"\n\nYour task as Chairman ... Provide your final answer now:">>

\* the chairman asked a second time
ChairmanCallsRetried(q, s1, s2, history) ==
    LET call == Call(3, CHAIRMAN_MODEL,
                     <<Message("user", ChairmanPrompt(q, s1, s2, history))>>)
    IN <<call, call>>

\* the one query_model(CHAIRMAN_MODEL, messages) call
ChairmanCalls(q, s1, s2, history) ==
    <<Call(3, CHAIRMAN_MODEL, <<Message("user", ChairmanPrompt(q, s1, s2, history))>>)>>

\* what stage3_synthesize_final returns for the chairman's outcome
Stage3Result(response) ==
    IF response.is_none
    THEN [model |-> CHAIRMAN_MODEL,
          response |-> <<"Error: Unable to generate final synthesis.">>]
    ELSE [model |-> CHAIRMAN_MODEL, response |-> Get(response, <<>>)]

(***************************************************************************)
(* run_full_council                                                        *)
(***************************************************************************)
\* if stage1_results is None
NoneRespondedIsNone(s1) == FALSE

\* if not stage1_results
NoneResponded(s1) == s1 = <<>>

AllFailedResult ==
    [stage1 |-> <<>>,
     stage2 |-> <<>>,
     stage3 |-> [model |-> "error",
                 response |-> <<"All models failed to respond. Please try again.">>],
     metadata |-> EmptyDict]

Metadata(l2m, aggregate) ==
    [label_to_model |-> l2m, aggregate_rankings |-> aggregate]

\* the return with the metadata dropped when the synthesis failed
FullResultNoMetadataOnError(s1, s2, s3, metadata) ==
    [stage1 |-> s1, stage2 |-> s2, stage3 |-> s3,
     metadata |-> IF s3.response = <<"Error: Unable to generate final synthesis.">>
                  THEN EmptyDict ELSE metadata]

FullResult(s1, s2, s3, metadata) ==
    [stage1 |-> s1, stage2 |-> s2, stage3 |-> s3, metadata |-> metadata]

NoResult ==
    [stage1 |-> <<>>, stage2 |-> <<>>, stage3 |-> EmptyDict, metadata |-> EmptyDict]

Init ==
    /\ council \in Councils
    /\ user_query \in Queries
    /\ conversation_history \in Histories
    /\ pc = "start"
    /\ issued = <<>>
    /\ in_flight = {}
    /\ arrived1 = <<>>
    /\ results1 = [k \in 1..Len(council) |-> None]
    /\ stage1_results = <<>>
    /\ label_to_model = EmptyDict
    /\ results2 = [k \in 1..Len(council) |-> None]
    /\ stage2_results = <<>>
    /\ aggregate_rankings = <<>>
    /\ chairman_response = None
    /\ result = NoResult
    /\ h_pc = "idle"
    /\ ranking_text = <<>>
    /\ ranking_section = <<>>
    /\ parsed_ranking = <<>>
    /\ h_aggregate = <<>>
    /\ t_pc = "idle"
    /\ title_call = EmptyDict
    /\ title_response = None
    /\ title_return = [raised |-> FALSE, title |-> <<>>]

\* run_full_council enters stage1_collect_responses, which builds one task
\* per council model and awaits them all
Stage1Dispatch ==
    /\ pc = "start"
    /\ issued' = issued \o Stage1Calls(council, user_query, conversation_history)
    /\ in_flight' = in_flight \cup {<<1, k>> : k \in 1..Len(council)}
    /\ pc' = "stage1_gather"
    /\ UNCHANGED <<council, user_query, conversation_history, arrived1, results1,
                   stage1_results, label_to_model, results2, stage2_results,
                   aggregate_rankings, chairman_response, result>>
    /\ UNCHANGED parseVars
    /\ UNCHANGED titleVars

\* one Stage 1 call resolves, in any order, to any outcome
Stage1Resolve(k, outcome) ==
    /\ <<1, k>> \in in_flight
    /\ in_flight' = in_flight \ {<<1, k>>}
    /\ arrived1' = Append(arrived1, k)
    /\ results1' = [results1 EXCEPT ![k] = outcome]
    /\ UNCHANGED <<council, user_query, conversation_history, pc, issued,
                   stage1_results, label_to_model, results2, stage2_results,
                   aggregate_rankings, chairman_response, result>>
    /\ UNCHANGED parseVars
    /\ UNCHANGED titleVars

\* the gather returns and stage1_collect_responses formats and returns
Stage1Return ==
    /\ pc = "stage1_gather"
    /\ GatherDone(in_flight)
    /\ stage1_results' = Stage1Format(council, GatherResults(results1, arrived1))
    /\ pc' = "stage1_returned"
    /\ UNCHANGED <<council, user_query, conversation_history, issued, in_flight,
                   arrived1, results1, label_to_model, results2, stage2_results,
                   aggregate_rankings, chairman_response, result>>
    /\ UNCHANGED parseVars
    /\ UNCHANGED titleVars

\* no model responded: the run returns the sentinel
ShortCircuit ==
    /\ pc = "stage1_returned"
    /\ NoneResponded(stage1_results)
    /\ result' = AllFailedResult
    /\ pc' = "done"
    /\ UNCHANGED <<council, user_query, conversation_history, issued, in_flight,
                   arrived1, results1, stage1_results, label_to_model, results2,
                   stage2_results, aggregate_rankings, chairman_response>>
    /\ UNCHANGED parseVars
    /\ UNCHANGED titleVars

\* run_full_council enters stage2_collect_rankings, which labels the
\* responses, builds the prompt and awaits query_models_parallel
Stage2Dispatch ==
    /\ pc = "stage1_returned"
    /\ ~NoneResponded(stage1_results)
    /\ label_to_model' = LabelToModel(stage1_results)
    /\ issued' = issued \o Stage2Calls(council,
            <<Message("user",
                      RankingPrompt(user_query, stage1_results, conversation_history))>>)
    /\ in_flight' = in_flight \cup {<<2, k>> : k \in 1..Len(council)}
    /\ pc' = "stage2_gather"
    /\ UNCHANGED <<council, user_query, conversation_history, arrived1, results1,
                   stage1_results, results2, stage2_results, aggregate_rankings,
                   chairman_response, result>>
    /\ UNCHANGED parseVars
    /\ UNCHANGED titleVars

\* one Stage 2 call resolves, in any order, to any outcome
Stage2Resolve(k, outcome) ==
    /\ <<2, k>> \in in_flight
    /\ in_flight' = in_flight \ {<<2, k>>}
    /\ results2' = [results2 EXCEPT ![k] = outcome]
    /\ UNCHANGED <<council, user_query, conversation_history, pc, issued, arrived1,
                   results1, stage1_results, label_to_model, stage2_results,
                   aggregate_rankings, chairman_response, result>>
    /\ UNCHANGED parseVars
    /\ UNCHANGED titleVars

\* query_models_parallel returns and stage2_collect_rankings formats and returns
Stage2Return ==
    /\ pc = "stage2_gather"
    /\ ParallelDone(in_flight)
    /\ stage2_results' = Stage2Format(council, results2)
    /\ pc' = "stage2_returned"
    /\ UNCHANGED <<council, user_query, conversation_history, issued, in_flight,
                   arrived1, results1, stage1_results, label_to_model, results2,
                   aggregate_rankings, chairman_response, result>>
    /\ UNCHANGED parseVars
    /\ UNCHANGED titleVars

\* the aggregate is computed, then stage3_synthesize_final builds its prompt
\* and awaits the chairman
Stage3Dispatch ==
    /\ pc = "stage2_returned"
    /\ aggregate_rankings' = calculate_aggregate_rankings(stage2_results, label_to_model)
    /\ issued' = issued \o ChairmanCalls(user_query, stage1_results, stage2_results,
                                         conversation_history)
    /\ in_flight' = in_flight \cup {<<3, 1>>}
    /\ pc' = "stage3_wait"
    /\ UNCHANGED <<council, user_query, conversation_history, arrived1, results1,
                   stage1_results, label_to_model, results2, stage2_results,
                   chairman_response, result>>
    /\ UNCHANGED parseVars
    /\ UNCHANGED titleVars

\* the chairman call resolves; stage3_synthesize_final and run_full_council return
Stage3Return(outcome) ==
    /\ pc = "stage3_wait"
    /\ <<3, 1>> \in in_flight
    /\ in_flight' = in_flight \ {<<3, 1>>}
    /\ chairman_response' = outcome
    /\ result' = FullResult(stage1_results, stage2_results, Stage3Result(outcome),
                            Metadata(label_to_model, aggregate_rankings))
    /\ pc' = "done"
    /\ UNCHANGED <<council, user_query, conversation_history, issued, arrived1,
                   results1, stage1_results, label_to_model, results2,
                   stage2_results, aggregate_rankings>>
    /\ UNCHANGED parseVars
    /\ UNCHANGED titleVars

Next ==
    \/ Stage1Dispatch
    \/ \E k \in 1..Len(council), outcome \in Stage1Outcomes : Stage1Resolve(k, outcome)
    \/ Stage1Return
    \/ ShortCircuit
    \/ Stage2Dispatch
    \/ \E k \in 1..Len(council), outcome \in Stage2Outcomes : Stage2Resolve(k, outcome)
    \/ Stage2Return
    \/ Stage3Dispatch
    \/ \E outcome \in ChairmanOutcomes : Stage3Return(outcome)

Spec == Init /\ [][Next]_vars

(***************************************************************************)
(* parse_ranking_from_text and calculate_aggregate_rankings on their own:  *)
(* a reviewer's text is any token sequence of at most MaxLen tokens; it is *)
(* parsed, then aggregated next to a peer's well-formed ranking in a run   *)
(* whose Stage 1 produced two responses.                                   *)
(***************************************************************************)
Texts == SeqsUpTo(Tokens, MaxLen)

PeerStage1 ==
    << [model |-> COUNCIL_MODELS[1], response |-> <<"r1">>],
       [model |-> COUNCIL_MODELS[2], response |-> <<"r1">>] >>

PeerLabelToModel == LabelToModel(PeerStage1)

PeerReview == Stage2Entry(COUNCIL_MODELS[1], RankingAB)

ParseInit ==
    /\ council = COUNCIL_MODELS
    /\ user_query \in Queries
    /\ conversation_history = <<>>
    /\ pc = "idle"
    /\ issued = <<>>
    /\ in_flight = {}
    /\ arrived1 = <<>>
    /\ results1 = [k \in 1..Len(council) |-> None]
    /\ stage1_results = <<>>
    /\ label_to_model = EmptyDict
    /\ results2 = [k \in 1..Len(council) |-> None]
    /\ stage2_results = <<>>
    /\ aggregate_rankings = <<>>
    /\ chairman_response = None
    /\ result = NoResult
    /\ h_pc = "text"
    /\ ranking_text \in Texts
    /\ ranking_section = <<>>
    /\ parsed_ranking = <<>>
    /\ h_aggregate = <<>>
    /\ t_pc = "idle"
    /\ title_call = EmptyDict
    /\ title_response = None
    /\ title_return = [raised |-> FALSE, title |-> <<>>]

\* parse_ranking_from_text(ranking_text)
ParseText ==
    /\ h_pc = "text"
    /\ ranking_section' = ParseRun(ranking_text).section
    /\ parsed_ranking' = parse_ranking_from_text(ranking_text)
    /\ h_pc' = "parsed"
    /\ UNCHANGED <<ranking_text, h_aggregate>>
    /\ UNCHANGED runVars
    /\ UNCHANGED titleVars

\* calculate_aggregate_rankings over the peer's review and this text's
AggregateText ==
    /\ h_pc = "parsed"
    /\ h_aggregate' = calculate_aggregate_rankings(
            <<PeerReview, Stage2Entry(COUNCIL_MODELS[2], ranking_text)>>,
            PeerLabelToModel)
    /\ h_pc' = "aggregated"
    /\ UNCHANGED <<ranking_text, ranking_section, parsed_ranking>>
    /\ UNCHANGED runVars
    /\ UNCHANGED titleVars

ParseNext == ParseText \/ AggregateText

SpecParse == ParseInit /\ [][ParseNext]_vars

(***************************************************************************)
(* Claims about parse_ranking_from_text (checked under SpecParse)          *)
(***************************************************************************)
\* The text after the first occurrence of the marker, up to the end.
AfterFirstMarker(text) == SubSeq(text, IndexOf(text, MARKER) + 1, Len(text))

RECURSIVE LabelOccurrences(_, _)
\* The labels at positions i.. of text, left to right.
LabelOccurrences(text, i) ==
    IF i > Len(text) THEN <<>>
    ELSE (IF text[i] \in {"Response A", "Response B"} THEN <<text[i]>> ELSE <<>>)
         \o LabelOccurrences(text, i + 1)

\* C7: whenever the marker occurs in the input, once or several times, the
\* section searched for labels is the whole text after the marker's first
\* occurrence, up to the end of the input.
C7_SectionIsAllAfterFirstMarker ==
    (h_pc # "text" /\ MARKER \in Range(ranking_text))
        => ranking_section = AfterFirstMarker(ranking_text)

\* C8: when the marker is present and the text after its first occurrence
\* holds at least one numbered entry, the result is exactly the labels of
\* those numbered entries, left to right, repeats included.
C8_NumberedEntriesOfPostMarkerText ==
    (/\ h_pc # "text"
     /\ MARKER \in Range(ranking_text)
     /\ FindallNumbered(AfterFirstMarker(ranking_text)) # <<>>)
        => parsed_ranking = ExtractLabels(FindallNumbered(AfterFirstMarker(ranking_text)))

\* C9: when the marker does not occur in the input, the result is every
\* "Response <letter>" occurrence of the entire text in left-to-right order,
\* numbered or not.
C9_NoMarkerAllLabels ==
    (h_pc # "text" /\ MARKER \notin Range(ranking_text))
        => parsed_ranking = LabelOccurrences(ranking_text, 1)

\* "I think Response B is good, Response A is ok" parsed to [B, A]
C9_Witness ==
    /\ h_pc = "parsed"
    /\ ranking_text = <<"x", "Response B", "x", "Response A", "x">>
    /\ parsed_ranking = <<"Response B", "Response A">>

\* C10: the parser returns a sequence of labels for every text, the empty
\* one when no label pattern occurs in the text, and a reviewer whose parsed
\* ranking is empty adds no position to any model of the aggregate: the
\* aggregate is the one of the peer's ranking [A, B] alone.
C10_EmptyParseContributesNothing ==
    /\ h_pc # "text" =>
          /\ parsed_ranking \in Seq({"Response A", "Response B"})
          /\ (\A i \in 1..Len(ranking_text) : ranking_text[i] \notin ResponseLabels)
                => parsed_ranking = <<>>
    /\ (h_pc = "aggregated" /\ parsed_ranking = <<>>) =>
          h_aggregate =
            << [model |-> COUNCIL_MODELS[1], average_rank |-> 100, rankings_count |-> 1],
               [model |-> COUNCIL_MODELS[2], average_rank |-> 200, rankings_count |-> 1] >>

\* a text with a label before the marker and none after it was parsed to
\* the empty ranking and aggregated
C10_Witness ==
    /\ h_pc = "aggregated"
    /\ ranking_text = <<"Response A", MARKER, "x">>
    /\ parsed_ranking = <<>>
    /\ Len(h_aggregate) = 2

(***************************************************************************)
(* Claims about a run of run_full_council (checked under Spec)             *)
(***************************************************************************)
Stage1AllFailed == \A k \in 1..Len(council) : results1[k].is_none
Stage1SomeSucceeded == \E k \in 1..Len(council) : ~results1[k].is_none
CallsOfStage(stage) == SelectSeq(issued, LAMBDA c : c.stage = stage)
LabelAt(i) == <<"Response A", "Response B", "Response C">>[i]
\* the position of a model in the council list
CouncilIndex(model) == CHOOSE k \in 1..Len(council) : council[k] = model

\* C1: when every Stage 1 call has failed (an empty council included), the
\* run returns the all-failed sentinel with empty stage1, stage2 and
\* metadata, and no Stage 2 call and no chairman call is ever issued.
C1_AllFailedSentinel ==
    (pc \notin {"start", "stage1_gather"} /\ Stage1AllFailed) =>
        /\ pc \in {"stage1_returned", "done"}
        /\ \A i \in 1..Len(issued) : issued[i].stage = 1
        /\ pc = "done" =>
              /\ result.stage1 = <<>>
              /\ result.stage2 = <<>>
              /\ result.stage3 =
                    [model |-> "error",
                     response |-> <<"All models failed to respond. Please try again.">>]
              /\ result.metadata = EmptyDict

\* a run of the full council in which all three calls failed has returned
C1_Witness ==
    /\ pc = "done"
    /\ Len(council) = 3
    /\ Len(arrived1) = 3
    /\ Stage1AllFailed

\* C2: when Stage 1 had a success and the chairman call fails, stage3 is the
\* fixed error result under the chairman's name, and stage1, stage2 and
\* metadata are returned populated with what Stages 1 and 2 computed, which
\* the chairman's outcome does not enter.
C2_ChairmanFailureKeepsStages ==
    (pc = "done" /\ Stage1SomeSucceeded /\ chairman_response.is_none) =>
        /\ result.stage3 =
              [model |-> CHAIRMAN_MODEL,
               response |-> <<"Error: Unable to generate final synthesis.">>]
        /\ result.stage1 = stage1_results
        /\ result.stage1 # <<>>
        /\ result.stage2 = stage2_results
        /\ result.metadata =
              [label_to_model |-> label_to_model,
               aggregate_rankings |-> aggregate_rankings]
        /\ Cardinality(DOMAIN result.metadata.label_to_model) = Len(stage1_results)

\* the chairman failed after two reviewers ranked two responses
C2_Witness ==
    /\ pc = "done"
    /\ chairman_response.is_none
    /\ Len(result.stage1) = 2
    /\ Len(result.stage2) = 2
    /\ Len(result.metadata.aggregate_rankings) = 2

\* C3: a Stage 2 call is in the issued calls only when every Stage 1 call
\* has resolved, and the chairman call only when every Stage 2 call has
\* resolved too; calls of two stages are never in flight together.
C3_StagesDoNotOverlap ==
    /\ CallsOfStage(2) # <<>> =>
          /\ Awaited(in_flight, 1) = {}
          /\ Len(arrived1) = Len(council)
    /\ CallsOfStage(3) # <<>> =>
          /\ Awaited(in_flight, 1) = {}
          /\ Awaited(in_flight, 2) = {}
    /\ \A c, d \in in_flight : c[1] = d[1]

\* the chairman call is in flight after three Stage 1 and three Stage 2 calls
C3_Witness ==
    /\ pc = "stage3_wait"
    /\ Len(CallsOfStage(1)) = 3
    /\ Len(CallsOfStage(2)) = 3
    /\ in_flight = {<<3, 1>>}

\* C4: the Stage 1 result holds exactly one entry per council model whose
\* call succeeded and none for a failed one, each with that model's own
\* response text, in council-list order whatever the completion order.
C4_Stage1ResultsByIdentity ==
    pc \notin {"start", "stage1_gather"} =>
        /\ Len(stage1_results) =
              Cardinality({k \in 1..Len(council) : ~results1[k].is_none})
        /\ \A j \in 1..Len(stage1_results) :
              /\ stage1_results[j].model \in Range(council)
              /\ LET r == results1[CouncilIndex(stage1_results[j].model)]
                 IN /\ ~r.is_none
                    /\ stage1_results[j].response =
                          (IF r.has_content THEN r.content ELSE <<>>)
        /\ \A i, j \in 1..Len(stage1_results) :
              i < j => CouncilIndex(stage1_results[i].model)
                          < CouncilIndex(stage1_results[j].model)

\* the third call resolved first, the second failed, and the two successes
\* carry different texts
C4_Witness ==
    /\ pc = "stage1_returned"
    /\ arrived1 = <<3, 1, 2>>
    /\ results1[2].is_none
    /\ results1[1] = DictNoContent
    /\ results1[3] = Dict(<<"r1">>)
    /\ Len(stage1_results) = 2

\* label_to_model has been built
Labelled ==
    \/ pc \in {"stage2_gather", "stage2_returned", "stage3_wait"}
    \/ pc = "done" /\ stage1_results # <<>>

\* C5: the i-th Stage 1 entry (0-based) gets the label "Response " + chr(65+i)
\* and label_to_model is a bijection between those labels and the entries'
\* models: one label per entry, no model under two labels.
C5_LabelsAreABijection ==
    Labelled =>
        /\ stage1_results # <<>>
        /\ DOMAIN label_to_model = {LabelAt(i) : i \in 1..Len(stage1_results)}
        /\ Cardinality(DOMAIN label_to_model) = Len(stage1_results)
        /\ \A i \in 1..Len(stage1_results) :
              label_to_model[LabelAt(i)] = stage1_results[i].model
        /\ \A l1, l2 \in DOMAIN label_to_model :
              label_to_model[l1] = label_to_model[l2] => l1 = l2

\* the first council model failed: A and B label the second and the third
C5_Witness ==
    /\ pc = "stage2_gather"
    /\ results1[1].is_none
    /\ DOMAIN label_to_model = {"Response A", "Response B"}
    /\ label_to_model["Response A"] = COUNCIL_MODELS[2]
    /\ label_to_model["Response B"] = COUNCIL_MODELS[3]

\* the Stage 1 results with other model identifiers attached
Reattributed(s1, models) ==
    [k \in 1..Len(s1) |-> [model |-> models[k], response |-> s1[k].response]]
OtherIdentities == Range(COUNCIL_MODELS) \cup {"some/other-model"}

\* C6: every council member is sent one and the same ranking prompt; it
\* holds no model identifier, and while the reviewers are awaited it is the
\* prompt a run with the same query, history and ordered response bodies
\* under any other model identifiers sends.
C6_PromptIgnoresIdentities ==
    CallsOfStage(2) # <<>> =>
        LET calls == CallsOfStage(2)
            prompt == calls[1].messages[1].content
        IN /\ Len(calls) = Len(council)
           /\ \A k \in 1..Len(calls) :
                 /\ calls[k].model = council[k]
                 /\ calls[k].messages = <<[role |-> "user", content |-> prompt]>>
           /\ \A i \in 1..Len(prompt) : prompt[i] \notin OtherIdentities
           /\ pc = "stage2_gather" =>
              \A models \in [1..Len(stage1_results) -> OtherIdentities] :
                 RankingPrompt(user_query,
                               Reattributed(stage1_results, models),
                               conversation_history) = prompt

\* three reviewers were sent the prompt over two responses and a history
C6_Witness ==
    /\ pc = "stage2_gather"
    /\ Len(CallsOfStage(2)) = 3
    /\ Len(stage1_results) = 2
    /\ conversation_history # <<>>

(***************************************************************************)
(* calculate_aggregate_rankings on its own: up to MaxReviewers reviewers,  *)
(* each answering the asked format with up to MaxRank numbered labels, of  *)
(* which "Response D" labels no response of the run; the run's Stage 1     *)
(* produced one or two responses.                                          *)
(***************************************************************************)
RankedLabels == {"Response A", "Response B", "Response D"}

\* "FINAL RANKING:" followed by the numbered list "k. <label>"
RankingText(labels) ==
    <<"x", MARKER>>
    \o Concat([k \in 1..Len(labels) |-> <<<<"1", "2", "3">>[k], Period, " ", labels[k]>>])

ReviewerTexts == {RankingText(labels) : labels \in SeqsUpTo(RankedLabels, MaxRank)}

\* the Stage 2 results of the first n council models answering texts
ReviewsOf(texts) ==
    [r \in 1..Len(texts) |-> Stage2Entry(COUNCIL_MODELS[r], texts[r])]

AggInit ==
    /\ council = COUNCIL_MODELS
    /\ user_query \in Queries
    /\ conversation_history = <<>>
    /\ pc = "idle"
    /\ issued = <<>>
    /\ in_flight = {}
    /\ arrived1 = <<>>
    /\ results1 = [k \in 1..Len(council) |-> None]
    /\ stage1_results \in {SubSeq(PeerStage1, 1, n) : n \in 1..2}
    /\ label_to_model = LabelToModel(stage1_results)
    /\ results2 = [k \in 1..Len(council) |-> None]
    /\ stage2_results \in {ReviewsOf(texts) : texts \in SeqsUpTo(ReviewerTexts, MaxReviewers)}
    /\ aggregate_rankings = <<>>
    /\ chairman_response = None
    /\ result = NoResult
    /\ h_pc = "rankings"
    /\ ranking_text = <<>>
    /\ ranking_section = <<>>
    /\ parsed_ranking = <<>>
    /\ h_aggregate = <<>>
    /\ t_pc = "idle"
    /\ title_call = EmptyDict
    /\ title_response = None
    /\ title_return = [raised |-> FALSE, title |-> <<>>]

\* calculate_aggregate_rankings(stage2_results, label_to_model)
AggregateRankings ==
    /\ h_pc = "rankings"
    /\ h_aggregate' = calculate_aggregate_rankings(stage2_results, label_to_model)
    /\ h_pc' = "aggregated"
    /\ UNCHANGED <<ranking_text, ranking_section, parsed_ranking>>
    /\ UNCHANGED runVars
    /\ UNCHANGED titleVars

AggNext == AggregateRankings

SpecAgg == AggInit /\ [][AggNext]_vars

(***************************************************************************)
(* Claims about calculate_aggregate_rankings (checked under SpecAgg)       *)
(***************************************************************************)
\* <<r, p>>: reviewer r's parsed ranking names, at position p, a label of model
Mentions(model) ==
    {rp \in (1..Len(stage2_results)) \X (1..MaxRank) :
        /\ rp[2] <= Len(stage2_results[rp[1]].parsed_ranking)
        /\ stage2_results[rp[1]].parsed_ranking[rp[2]] \in DOMAIN label_to_model
        /\ label_to_model[stage2_results[rp[1]].parsed_ranking[rp[2]]] = model}

RECURSIVE SumOfPositions(_)
SumOfPositions(mentions) ==
    IF mentions = {} THEN 0
    ELSE LET rp == CHOOSE x \in mentions : TRUE
         IN rp[2] + SumOfPositions(mentions \ {rp})

ParsedAs(r, labels) ==
    /\ r <= Len(stage2_results)
    /\ stage2_results[r].parsed_ranking = labels

\* C11: every entry's average_rank is the arithmetic mean of the 1-based
\* positions at which labels of its model appear in the reviewers' parsed
\* rankings, to 2 decimals: it is within half a hundredth of the mean.
\* Rankings [A, B] and [B, A] give both models 1.5.
C11_AverageIsMeanOfPositions ==
    h_pc = "aggregated" =>
        /\ \A i \in 1..Len(h_aggregate) :
              LET m == Mentions(h_aggregate[i].model)
                  d == 100 * SumOfPositions(m)
                         - h_aggregate[i].average_rank * Cardinality(m)
              IN /\ m # {}
                 /\ 2 * d <= Cardinality(m)
                 /\ 2 * (0 - d) <= Cardinality(m)
        /\ (Len(stage2_results) = 2
              /\ ParsedAs(1, <<"Response A", "Response B">>)
              /\ ParsedAs(2, <<"Response B", "Response A">>)
              /\ Len(stage1_results) = 2)
             => \A i \in 1..Len(h_aggregate) : h_aggregate[i].average_rank = 150

\* rankings [A, B] and [B, A] over {A: m1, B: m2} were aggregated
C11_Witness ==
    /\ h_pc = "aggregated"
    /\ Len(stage1_results) = 2
    /\ Len(stage2_results) = 2
    /\ ParsedAs(1, <<"Response A", "Response B">>)
    /\ ParsedAs(2, <<"Response B", "Response A">>)
    /\ Len(h_aggregate) = 2
    /\ h_aggregate[1].average_rank = 150
    /\ h_aggregate[2].average_rank = 150

\* the reviewers whose parsed ranking names a label of model
ReviewersRanking(model) == {rp[1] : rp \in Mentions(model)}

\* C12: every entry's rankings_count is the number of reviewers who ranked
\* its model, also when a reviewer repeats a label.
C12_CountIsNumberOfReviewers ==
    h_pc = "aggregated" =>
        \A i \in 1..Len(h_aggregate) :
            h_aggregate[i].rankings_count
                = Cardinality(ReviewersRanking(h_aggregate[i].model))

\* C13: a label that is no key of label_to_model records no position but
\* keeps its place in the ranking (the labels after it are not moved up), a
\* model with no recorded position has no entry, and every entry has a
\* rankings_count of at least 1 and a model that label_to_model maps to.
C13_UnknownLabelsSkippedNoZeroFill ==
    h_pc = "aggregated" =>
        /\ \A i \in 1..Len(h_aggregate) :
              /\ h_aggregate[i].rankings_count >= 1
              /\ h_aggregate[i].rankings_count
                    = Cardinality(Mentions(h_aggregate[i].model))
              /\ \E l \in DOMAIN label_to_model :
                    label_to_model[l] = h_aggregate[i].model
        /\ \A l \in DOMAIN label_to_model :
              (\E i \in 1..Len(h_aggregate) : h_aggregate[i].model = label_to_model[l])
                 <=> Mentions(label_to_model[l]) # {}
        /\ (Len(stage2_results) = 1 /\ ParsedAs(1, <<"Response D", "Response A">>))
              => h_aggregate =
                    << [model |-> COUNCIL_MODELS[1], average_rank |-> 200,
                        rankings_count |-> 1] >>

\* the one reviewer ranked an unknown label first and Response A second, and
\* Response B, though labelled, was ranked by nobody
C13_Witness ==
    /\ h_pc = "aggregated"
    /\ Len(stage1_results) = 2
    /\ Len(stage2_results) = 1
    /\ ParsedAs(1, <<"Response D", "Response A">>)
    /\ Len(h_aggregate) = 1

\* where a model is first met walking the reviewers' rankings in order
FirstMention(model) ==
    CHOOSE rp \in Mentions(model) :
        \A other \in Mentions(model) :
            \/ rp[1] < other[1]
            \/ rp[1] = other[1] /\ rp[2] <= other[2]

Earlier(a, b) == a[1] < b[1] \/ (a[1] = b[1] /\ a[2] < b[2])

\* C14: the aggregate is sorted ascending by average_rank, holds each model
\* at most once, and entries of equal average_rank stand in the order in
\* which their models were first met walking the reviewers' rankings.
C14_SortedAscendingStable ==
    h_pc = "aggregated" =>
        \A i, j \in 1..Len(h_aggregate) :
            i < j =>
                /\ h_aggregate[i].average_rank <= h_aggregate[j].average_rank
                /\ h_aggregate[i].model # h_aggregate[j].model
                /\ h_aggregate[i].average_rank = h_aggregate[j].average_rank
                      => Earlier(FirstMention(h_aggregate[i].model),
                                 FirstMention(h_aggregate[j].model))

\* the first model met ([A], then [B, A]) has the worse average and comes last
C14_Witness ==
    /\ h_pc = "aggregated"
    /\ ParsedAs(1, <<"Response A">>)
    /\ ParsedAs(2, <<"Response B", "Response A">>)
    /\ Len(h_aggregate) = 2
    /\ h_aggregate[1].model = COUNCIL_MODELS[2]
    /\ h_aggregate[1].average_rank = 100
    /\ h_aggregate[2].model = COUNCIL_MODELS[1]
    /\ h_aggregate[2].average_rank = 150

(***************************************************************************)
(* Further claims about a run of run_full_council (checked under Spec)     *)
(***************************************************************************)
\* C15: a run in which Stage 1 had a success issues exactly one call to the
\* chairman model, whatever the Stage 1, Stage 2 and chairman outcomes; no
\* run ever issues more than one.
C15_ExactlyOneChairmanCall ==
    /\ Len(CallsOfStage(3)) <= 1
    /\ \A i \in 1..Len(issued) :
          issued[i].stage = 3 => issued[i].model = CHAIRMAN_MODEL
    /\ \A i \in 1..Len(issued) :
          issued[i].stage # 3 => issued[i].model \in Range(council)
    /\ (pc \in {"stage3_wait", "done"} /\ Stage1SomeSucceeded) =>
          Len(CallsOfStage(3)) = 1

\* the run has returned after a failed chairman call that followed a Stage 1
\* with one success and two failures
C15_Witness ==
    /\ pc = "done"
    /\ Len(council) = 3
    /\ Len(stage1_results) = 1
    /\ chairman_response.is_none
    /\ Len(CallsOfStage(3)) = 1

Stage2AllFailed == \A k \in 1..Len(council) : results2[k].is_none

\* C19: when Stage 1 had a success and every Stage 2 call failed, the run
\* still issues the one chairman call and returns stage2 = [] and
\* aggregate_rankings = [] with a non-empty stage1 and a label_to_model of
\* one label per Stage 1 entry.
C19_AllReviewersFailed ==
    (pc = "done" /\ Stage1SomeSucceeded /\ Stage2AllFailed) =>
        /\ Len(CallsOfStage(2)) = Len(council)
        /\ Len(CallsOfStage(3)) = 1
        /\ result # AllFailedResult
        /\ result.stage3 = Stage3Result(chairman_response)
        /\ result.stage2 = <<>>
        /\ result.metadata.aggregate_rankings = <<>>
        /\ result.stage1 # <<>>
        /\ DOMAIN result.metadata.label_to_model
              = {LabelAt(i) : i \in 1..Len(result.stage1)}
        /\ \A i \in 1..Len(result.stage1) :
              result.metadata.label_to_model[LabelAt(i)] = result.stage1[i].model

\* three reviewers were asked about two responses and all three failed
C19_Witness ==
    /\ pc = "done"
    /\ Len(council) = 3
    /\ Len(result.stage1) = 2
    /\ Len(CallsOfStage(2)) = 3
    /\ Stage2AllFailed
    /\ result.stage2 = <<>>

\* the reviewers that answered, in council order
Answered == SelectSeq([k \in 1..Len(council) |-> k], LAMBDA k : ~results2[k].is_none)

RECURSIVE WalkStored(_, _, _)
\* the walk of calculate_aggregate_rankings over the stored parsed_ranking
\* fields instead of the re-parsed texts
WalkStored(model_positions, s2, l2m) ==
    IF s2 = <<>> THEN model_positions
    ELSE WalkStored(WalkRanking(model_positions, Head(s2).parsed_ranking, 1, l2m),
                    Tail(s2), l2m)

\* C20: every Stage2Result holds the reviewer's text as it was answered and
\* the parse of that text, so the aggregate computed by parsing each ranking
\* text again is the aggregate of the stored parsed_ranking fields.
C20_StoredParseIsReparse ==
    pc \in {"stage2_returned", "stage3_wait", "done"} /\ stage1_results # <<>> =>
        /\ Len(stage2_results) = Len(Answered)
        /\ \A j \in 1..Len(stage2_results) :
              /\ j <= Len(Answered)
              /\ stage2_results[j].model = council[Answered[j]]
              /\ stage2_results[j].ranking = results2[Answered[j]].content
              /\ stage2_results[j].parsed_ranking
                    = parse_ranking_from_text(results2[Answered[j]].content)
        /\ pc # "stage2_returned" =>
              aggregate_rankings
                 = SortByAverageRank(AggregateEntries(
                       WalkStored(<<>>, stage2_results, label_to_model)))

\* two reviewers ranked in opposite orders and a third said nothing to parse
C20_Witness ==
    /\ pc = "done"
    /\ Len(stage2_results) = 3
    /\ stage2_results[1].parsed_ranking = <<"Response A", "Response B">>
    /\ stage2_results[2].parsed_ranking = <<"Response B", "Response A">>
    /\ stage2_results[3].ranking = NoRankingInfo
    /\ stage2_results[3].parsed_ranking = <<>>
    /\ Len(aggregate_rankings) = 2

(***************************************************************************)
(* A further claim about parse_ranking_from_text (checked under SpecParse) *)
(***************************************************************************)
\* C18: when the marker is present and the text after its first occurrence
\* holds no numbered entry, the result is every label occurring in that
\* text, in order; a label that occurs only before the marker is not in it.
C18_BareLabelsOfPostMarkerText ==
    (/\ h_pc # "text"
     /\ MARKER \in Range(ranking_text)
     /\ FindallNumbered(AfterFirstMarker(ranking_text)) = <<>>)
        => /\ parsed_ranking = LabelOccurrences(AfterFirstMarker(ranking_text), 1)
           /\ Range(parsed_ranking) \subseteq Range(AfterFirstMarker(ranking_text))

(***************************************************************************)
(* generate_conversation_title.  Here a text is a sequence of characters.  *)
(***************************************************************************)
\* len(title) > 50
MaxTitleLen == 50
\* title[:47]
TruncatedLen == 47

NewConversation ==
    <<"N", "e", "w", " ", "C", "o", "n", "v", "e", "r", "s", "a", "t", "i", "o", "n">>
Ellipsis == <<".", ".", ".">>

\* the characters str.strip() removes, and those strip("\"'") removes
StripWhitespace == {" ", "\n"}
Quotes == {"\"", "'"}

RECURSIVE LStrip(_, _)
LStrip(s, chars) ==
    IF s # <<>> /\ Head(s) \in chars THEN LStrip(Tail(s), chars) ELSE s

RECURSIVE RStrip(_, _)
RStrip(s, chars) ==
    IF s # <<>> /\ s[Len(s)] \in chars
    THEN RStrip(SubSeq(s, 1, Len(s) - 1), chars)
    ELSE s

\* s.strip(chars)
Strip(s, chars) == RStrip(LStrip(s, chars), chars)

\* the truncation keeping 50 characters before the ellipsis
TruncateKeepsFifty(title) ==
    IF Len(title) > MaxTitleLen
    THEN SubSeq(title, 1, MaxTitleLen) \o Ellipsis
    ELSE title

\* if len(title) > 50: title = title[:47] + "..."
Truncate(title) ==
    IF Len(title) > MaxTitleLen
    THEN SubSeq(title, 1, TruncatedLen) \o Ellipsis
    ELSE title

\* a response dict whose "content" is None
DictNullContent ==
    [is_none |-> FALSE, has_content |-> TRUE, content |-> <<>>, is_null |-> TRUE]
ContentIsNull(response) == "is_null" \in DOMAIN response

\* the function from the response on: what it returns, or that it raised
\* (None has no strip)
generate_conversation_title(response) ==
    IF response.is_none
    THEN [raised |-> FALSE, title |-> NewConversation]
    ELSE IF ContentIsNull(response)
    THEN [raised |-> TRUE, title |-> <<>>]
    ELSE [raised |-> FALSE,
          title |-> Truncate(Strip(Strip(Get(response, NewConversation),
                                         StripWhitespace),
                                   Quotes))]

TitlePrompt(q) ==
    <<"Generate a very short title (3-5 words maximum) ...\n\nQuestion: ">>
    \o q \o <<"\n\nTitle:">>

\* What the title model may answer: padding of whitespace and quotes around
\* a body of up to MaxBody characters that repeats a pattern.
PadChars == {" ", "\"", "'"}
Patterns == {<<"a">>, <<"a", " ", "b", "'">>}
Body(n, pattern) == [i \in 1..n |-> pattern[((i - 1) % Len(pattern)) + 1]]
TitleContents ==
    {lead \o Body(n, pattern) \o trail :
        lead \in SeqsUpTo(PadChars, MaxPad), trail \in SeqsUpTo(PadChars, MaxPad),
        n \in 0..MaxBody, pattern \in Patterns}
TitleOutcomes ==
    {None, DictNoContent, DictNullContent} \cup {Dict(c) : c \in TitleContents}

TitleInit ==
    /\ council = <<>>
    /\ user_query \in Queries
    /\ conversation_history = <<>>
    /\ pc = "idle"
    /\ issued = <<>>
    /\ in_flight = {}
    /\ arrived1 = <<>>
    /\ results1 = <<>>
    /\ stage1_results = <<>>
    /\ label_to_model = EmptyDict
    /\ results2 = <<>>
    /\ stage2_results = <<>>
    /\ aggregate_rankings = <<>>
    /\ chairman_response = None
    /\ result = NoResult
    /\ h_pc = "idle"
    /\ ranking_text = <<>>
    /\ ranking_section = <<>>
    /\ parsed_ranking = <<>>
    /\ h_aggregate = <<>>
    /\ t_pc = "start"
    /\ title_call = EmptyDict
    /\ title_response \in TitleOutcomes
    /\ title_return = [raised |-> FALSE, title |-> <<>>]

\* the prompt is built and the one call awaited
TitleCall ==
    /\ t_pc = "start"
    /\ title_call' = [model    |-> "google/gemini-2.5-flash",
                      messages |-> <<Message("user", TitlePrompt(user_query))>>,
                      timeout  |-> 30]
    /\ t_pc' = "wait"
    /\ UNCHANGED <<title_response, title_return>>
    /\ UNCHANGED runVars
    /\ UNCHANGED parseVars

\* the call resolves and the function returns its title, or raises
TitleReturn ==
    /\ t_pc = "wait"
    /\ title_return' = generate_conversation_title(title_response)
    /\ t_pc' = IF generate_conversation_title(title_response).raised
               THEN "raised" ELSE "done"
    /\ UNCHANGED <<title_call, title_response>>
    /\ UNCHANGED runVars
    /\ UNCHANGED parseVars

TitleNext ==
    \/ TitleCall
    \/ TitleReturn

SpecTitle == TitleInit /\ [][TitleNext]_vars

(***************************************************************************)
(* Claims about generate_conversation_title (checked under SpecTitle)      *)
(***************************************************************************)
\* the text the title is made from
AnsweredContent ==
    IF title_response.has_content THEN title_response.content ELSE NewConversation

\* s without its leading and trailing characters of chars
Stripped(s, chars) ==
    LET keep == {i \in 1..Len(s) : s[i] \notin chars}
    IN IF keep = {} THEN <<>>
       ELSE SubSeq(s, CHOOSE i \in keep : \A j \in keep : i <= j,
                      CHOOSE i \in keep : \A j \in keep : i >= j)

\* the model's output is empty or degenerate
Degenerate(response) ==
    \/ ~response.has_content
    \/ ContentIsNull(response)
    \/ Range(response.content) \subseteq StripWhitespace
    \/ Range(response.content) \subseteq Quotes

\* C16: the function returns "New Conversation" when the call failed and
\* when the model's output is empty or degenerate (empty, only whitespace,
\* only quotes, or a missing or null content); it never returns an empty
\* title and never raises.
C16_FallbackOnFailureOrDegenerate ==
    /\ t_pc # "raised"
    /\ t_pc = "done" =>
          /\ title_return.title # <<>>
          /\ (title_response.is_none \/ Degenerate(title_response))
                => title_return.title = NewConversation

\* C17: the returned title has at most 50 characters: one longer than 50
\* after stripping the surrounding whitespace and then the wrapping quotes
\* is returned as its first 47 characters followed by "...", 50 characters
\* in all, and one of 50 characters or fewer is returned as it is.
C17_TitleAtMostFifty ==
    t_pc = "done" =>
        /\ Len(title_return.title) <= MaxTitleLen
        /\ ~title_response.is_none =>
              LET stripped == Stripped(Stripped(AnsweredContent, StripWhitespace),
                                       Quotes)
              IN /\ Len(stripped) > MaxTitleLen =>
                       /\ title_return.title
                             = SubSeq(stripped, 1, TruncatedLen) \o Ellipsis
                       /\ Len(title_return.title) = MaxTitleLen
                 /\ Len(stripped) <= MaxTitleLen => title_return.title = stripped

\* a quoted answer of 51 characters inside its quotes came back as 50
C17_Witness ==
    /\ t_pc = "done"
    /\ title_response.has_content
    /\ Len(title_response.content) = MaxTitleLen + 3
    /\ title_response.content[1] \in Quotes
    /\ Len(title_return.title) = MaxTitleLen
    /\ SubSeq(title_return.title, TruncatedLen + 1, MaxTitleLen) = Ellipsis
    /\ SubSeq(title_return.title, 1, TruncatedLen)
          = SubSeq(title_response.content, 2, TruncatedLen + 1)

====
